---------------------------- MODULE Spec2Model ----------------------------
(***************************************************************************)
(* Book-Alchemy: the Flask request handlers of src/app.py over the two     *)
(* tables of src/data_models.py.                                           *)
(*                                                                         *)
(* Storage is the committed content of the SQLite file: the set of author  *)
(* rows and the set of book rows.  Every request handler is cut at its     *)
(* database statements: a SELECT, or a flush+COMMIT, is one atomic step    *)
(* (SQLite serialises writers), and the Python code between two statements *)
(* belongs to the step of the statement before it.  Requests of different  *)
(* worker threads interleave at those steps.                               *)
(*                                                                         *)
(* Text (names, titles, search terms) is a sequence of one-character       *)
(* strings; a date string is the sequence of its three "-"-separated       *)
(* fields <<year, month, day>>; a date is its day number.                  *)
(***************************************************************************)
EXTENDS Integers, Sequences, FiniteSets, TLC

\* ------------------------------------------------------------------ bounds
\* The last day the clock reaches (days are counted from 2000-01-01 = 1).
MaxDay == 2
\* The largest row id storage hands out.
MaxId == 2

\* The worker threads: two requests at a time, the least that interleaves.
Workers == {1, 2}

VARIABLES
    authors,     \* committed rows of table authors
    books,       \* committed rows of table books
    today,       \* date.today()
    threaded,    \* whether the server handles requests concurrently
    procs,       \* per worker: the request it is handling and where it is
    response     \* the response sent by the last step, NoResponse if none

vars == <<authors, books, today, threaded, procs, response>>

NoResponse == [op |-> "none"]
Idle == [pc |-> "idle"]
None == 0

\* ----------------------------------------------------------------- storage
Max(S) == CHOOSE x \in S : \A y \in S : y <= x
Min(S) == CHOOSE x \in S : \A y \in S : x <= y

\* authors.author_id / books.book_id: INTEGER PRIMARY KEY of a SQLite table
\* created without the AUTOINCREMENT keyword: the new rowid is one more than
\* the largest rowid in the table (the id of a deleted last row is reused).
NextAuthorId == IF authors = {} THEN 1 ELSE Max({a.author_id : a \in authors}) + 1
NextBookId == IF books = {} THEN 1 ELSE Max({b.book_id : b \in books}) + 1

\* The database is a SQLite file opened through SQLAlchemy with no
\* "PRAGMA foreign_keys=ON" connection hook: SQLite parses the REFERENCES
\* clause of books.author_id and does not enforce it.
ForeignKeysEnforced == FALSE

\* Author.query.filter_by(author_name=name).first(): the matching row met
\* first by the table scan, which is in rowid order; None if there is none.
\* Its author_id stands for the row.
AuthorByName(name) ==
    LET found == {a.author_id : a \in {x \in authors : x.author_name = name}}
    IN IF found = {} THEN None ELSE Min(found)

\* Author row by primary key (a set: empty when the row is gone).
AuthorRow(id) == {a \in authors : a.author_id = id}
\* Book.query.get(book_id)
BookRow(id) == {b \in books : b.book_id = id}
\* Book.query.filter_by(isbn=isbn).first() is not None
IsbnTaken(isbn) == \E b \in books : b.isbn = isbn
\* author.books: SELECT ... FROM books WHERE author_id = ?
BooksOf(id) == {b \in books : b.author_id = id}

\* ------------------------------------------------------------------- dates
ValueError == -1
\* datetime.strptime(s, "%Y-%m-%d").date()
StrpDate(s) ==
    IF /\ Len(s) = 3
       /\ s[1] \in 1..9999
       /\ s[2] \in 1..12
       /\ s[3] \in 1..31
    THEN (s[1] - 2000) * 372 + (s[2] - 1) * 31 + s[3]
    ELSE ValueError

\* ---------------------------------------------------------------- requests
\* A request is taken by the lowest idle worker (workers are interchangeable);
\* a server that is not threaded takes it only when no request is running.
Accepts(p) ==
    /\ procs[p].pc = "idle"
    /\ \A w \in Workers : w < p => procs[w].pc # "idle"
    /\ threaded \/ \A w \in Workers : procs[w].pc = "idle"

Reply(p, op, status) ==
    /\ response' = [op |-> op, status |-> status, req |-> procs[p].req]
    /\ procs' = [procs EXCEPT ![p] = Idle]

\* -------------------------------------------------------------- add_author
\* Lines 34-62: the validation sequence, up to the first failure.
AddAuthorValidationDeathUnordered(name, birth_str, death_str) ==
    IF name = <<>> \/ birth_str = <<>> THEN "MissingField"
    ELSE IF AuthorByName(name) # None THEN "DuplicateAuthor"
    ELSE IF StrpDate(birth_str) = ValueError THEN "MalformedDate"
    ELSE IF StrpDate(birth_str) > today THEN "FutureBirthDate"
    ELSE IF death_str # <<>> /\ StrpDate(death_str) = ValueError THEN "MalformedDate"
    ELSE IF death_str # <<>> /\ StrpDate(death_str) > today THEN "FutureDeathDate"
    ELSE "Valid"

AddAuthorValidationNoDuplicateCheck(name, birth_str, death_str) ==
    IF name = <<>> \/ birth_str = <<>> THEN "MissingField"
    ELSE IF StrpDate(birth_str) = ValueError THEN "MalformedDate"
    ELSE IF StrpDate(birth_str) > today THEN "FutureBirthDate"
    ELSE IF death_str # <<>> /\ StrpDate(death_str) = ValueError THEN "MalformedDate"
    ELSE IF death_str # <<>> /\ StrpDate(death_str) < StrpDate(birth_str)
         THEN "DeathBeforeBirth"
    ELSE IF death_str # <<>> /\ StrpDate(death_str) > today THEN "FutureDeathDate"
    ELSE "Valid"

AddAuthorValidationFutureDeathAllowed(name, birth_str, death_str) ==
    IF name = <<>> \/ birth_str = <<>> THEN "MissingField"
    ELSE IF AuthorByName(name) # None THEN "DuplicateAuthor"
    ELSE IF StrpDate(birth_str) = ValueError THEN "MalformedDate"
    ELSE IF StrpDate(birth_str) > today THEN "FutureBirthDate"
    ELSE IF death_str # <<>> /\ StrpDate(death_str) = ValueError THEN "MalformedDate"
    ELSE IF death_str # <<>> /\ StrpDate(death_str) < StrpDate(birth_str)
         THEN "DeathBeforeBirth"
    ELSE "Valid"

AddAuthorValidationParseFirst(name, birth_str, death_str) ==
    IF name = <<>> \/ birth_str = <<>> THEN "MissingField"
    ELSE IF StrpDate(birth_str) = ValueError THEN "MalformedDate"
    ELSE IF AuthorByName(name) # None THEN "DuplicateAuthor"
    ELSE IF StrpDate(birth_str) > today THEN "FutureBirthDate"
    ELSE IF death_str # <<>> /\ StrpDate(death_str) = ValueError THEN "MalformedDate"
    ELSE IF death_str # <<>> /\ StrpDate(death_str) < StrpDate(birth_str)
         THEN "DeathBeforeBirth"
    ELSE IF death_str # <<>> /\ StrpDate(death_str) > today THEN "FutureDeathDate"
    ELSE "Valid"

AddAuthorValidation(name, birth_str, death_str) ==
    IF name = <<>> \/ birth_str = <<>> THEN "MissingField"
    ELSE IF AuthorByName(name) # None THEN "DuplicateAuthor"
    ELSE IF StrpDate(birth_str) = ValueError THEN "MalformedDate"
    ELSE IF StrpDate(birth_str) > today THEN "FutureBirthDate"
    ELSE IF death_str # <<>> /\ StrpDate(death_str) = ValueError THEN "MalformedDate"
    ELSE IF death_str # <<>> /\ StrpDate(death_str) < StrpDate(birth_str)
         THEN "DeathBeforeBirth"
    ELSE IF death_str # <<>> /\ StrpDate(death_str) > today THEN "FutureDeathDate"
    ELSE "Valid"

\* A POST /add_author runs lines 30-71: the required-field check, the SELECT
\* of line 39 and the date checks.  A failure is answered at once; otherwise
\* the Author object of lines 67-71 waits for its commit.
AddAuthorValidate(p, name, birth_str, death_str) ==
    LET verdict == AddAuthorValidation(name, birth_str, death_str)
        req == [name |-> name, birthdate |-> birth_str, date_of_death |-> death_str]
    IN /\ Accepts(p)
       /\ IF verdict # "Valid"
          THEN /\ response' = [op |-> "add_author", status |-> verdict, req |-> req]
               /\ UNCHANGED procs
          ELSE /\ procs' = [procs EXCEPT ![p] =
                     [pc |-> "author_commit",
                      req |-> req,
                      birth_date |-> StrpDate(birth_str),
                      date_of_death |-> IF death_str = <<>> THEN None
                                        ELSE StrpDate(death_str)]]
               /\ response' = NoResponse
       /\ UNCHANGED <<authors, books, today, threaded>>

\* Lines 74-81: db.session.add(author); commit.  The INSERT takes the next
\* rowid.
AddAuthorCommit(p) ==
    /\ procs[p].pc = "author_commit"
    /\ NextAuthorId <= MaxId
    /\ authors' = authors \cup
          {[author_id |-> NextAuthorId,
            author_name |-> procs[p].req.name,
            birth_date |-> procs[p].birth_date,
            date_of_death |-> procs[p].date_of_death]}
    /\ Reply(p, "add_author", "Created")
    /\ UNCHANGED <<books, today, threaded>>

\* Lines 77-79: the commit raises SQLAlchemyError (a locked database, an I/O
\* error) and is rolled back.
AddAuthorCommitFails(p) ==
    /\ procs[p].pc = "author_commit"
    /\ Reply(p, "add_author", "CommitFailed")
    /\ UNCHANGED <<authors, books, today, threaded>>

\* ---------------------------------------------------------------- add_book
\* Lines 90-102: required fields, then the SELECT for the ISBN.
AddBookCheck(p, title, isbn, author_name) ==
    LET req == [title |-> title, isbn |-> isbn, author_name |-> author_name]
    IN /\ Accepts(p)
       /\ IF title = <<>> \/ isbn = ""
          THEN /\ response' = [op |-> "add_book", status |-> "MissingField", req |-> req]
               /\ UNCHANGED procs
          ELSE IF IsbnTaken(isbn)
          THEN /\ response' = [op |-> "add_book", status |-> "DuplicateISBN", req |-> req]
               /\ UNCHANGED procs
          ELSE /\ procs' = [procs EXCEPT ![p] = [pc |-> "book_resolve", req |-> req]]
               /\ response' = NoResponse
       /\ UNCHANGED <<authors, books, today, threaded>>

\* Lines 94, 105-108: the SELECT for the author.  An empty author_name is
\* None and matches no row.
AddBookResolve(p) ==
    LET name == procs[p].req.author_name
        author == IF name = <<>> THEN None ELSE AuthorByName(name)
    IN /\ procs[p].pc = "book_resolve"
       /\ IF author = None
          THEN Reply(p, "add_book", "AuthorNotFound")
          ELSE /\ procs' = [procs EXCEPT ![p] =
                     [pc |-> "book_commit", req |-> procs[p].req, author_id |-> author]]
               /\ response' = NoResponse
       /\ UNCHANGED <<authors, books, today, threaded>>

\* What the INSERT of the book checks: UNIQUE(isbn) always, the foreign key
\* when the connection enforces it.
InsertBookAllowedNoUnique(isbn, author_id) ==
    ForeignKeysEnforced => AuthorRow(author_id) # {}

InsertBookAllowed(isbn, author_id) ==
    /\ ~IsbnTaken(isbn)
    /\ ForeignKeysEnforced => AuthorRow(author_id) # {}

\* Lines 111-125: db.session.add(book); commit.  An IntegrityError is a
\* SQLAlchemyError: rolled back and answered "Database error".
AddBookCommit(p) ==
    /\ procs[p].pc = "book_commit"
    /\ IF InsertBookAllowed(procs[p].req.isbn, procs[p].author_id)
       THEN /\ NextBookId <= MaxId
            /\ books' = books \cup
                  {[book_id |-> NextBookId,
                    isbn |-> procs[p].req.isbn,
                    book_title |-> procs[p].req.title,
                    author_id |-> procs[p].author_id]}
            /\ Reply(p, "add_book", "Created")
       ELSE /\ Reply(p, "add_book", "CommitFailed")
            /\ UNCHANGED books
    /\ UNCHANGED <<authors, today, threaded>>

AddBookCommitFails(p) ==
    /\ procs[p].pc = "book_commit"
    /\ Reply(p, "add_book", "CommitFailed")
    /\ UNCHANGED <<authors, books, today, threaded>>

\* ------------------------------------------------------------- delete_book
DeleteReply(p, status) ==
    /\ response' = [op |-> "delete_book", status |-> status,
                    req |-> procs[p].req, author |-> procs[p].author]
    /\ procs' = [procs EXCEPT ![p] = Idle]

\* Lines 189-193: Book.query.get(book_id).
DeleteBookLookup(p, book_id) ==
    LET req == [book_id |-> book_id]
    IN /\ Accepts(p)
       /\ IF BookRow(book_id) = {}
          THEN /\ response' = [op |-> "delete_book", status |-> "BookNotFound",
                               req |-> req, author |-> None]
               /\ UNCHANGED procs
          ELSE /\ procs' = [procs EXCEPT ![p] =
                     [pc |-> "del_capture", req |-> req,
                      author |-> (CHOOSE b \in BookRow(book_id) : TRUE).author_id]]
               /\ response' = NoResponse
       /\ UNCHANGED <<authors, books, today, threaded>>

\* Lines 196-197: book.author, the lazy load of the row book.author_id names;
\* None when that row does not exist.
DeleteBookCapture(p) ==
    /\ procs[p].pc = "del_capture"
    /\ procs' = [procs EXCEPT ![p] =
          [pc |-> "del_book", req |-> procs[p].req,
           author |-> IF AuthorRow(procs[p].author) = {} THEN None
                      ELSE procs[p].author]]
    /\ response' = NoResponse
    /\ UNCHANGED <<authors, books, today, threaded>>

\* Lines 199-201: DELETE FROM books WHERE book_id = ?; COMMIT.  A row that a
\* concurrent request already deleted matches nothing (the ORM warns).
DeleteBookCommit(p) ==
    /\ procs[p].pc = "del_book"
    /\ books' = books \ BookRow(procs[p].req.book_id)
    /\ procs' = [procs EXCEPT ![p].pc = "del_check"]
    /\ response' = NoResponse
    /\ UNCHANGED <<authors, today, threaded>>

\* Lines 202-205.
DeleteBookCommitFails(p) ==
    /\ procs[p].pc = "del_book"
    /\ DeleteReply(p, "DeleteBookFailed")
    /\ UNCHANGED <<authors, books, today, threaded>>

\* Lines 208, 218-221: author.books on the author expired by the commit: the
\* ORM reloads the row by its primary key, then selects its books.  With
\* author None (AttributeError), or with the row gone (ObjectDeletedError),
\* the request dies of the unhandled exception.
DeleteBookCheckOrphanAlwaysCascade(p) ==
    /\ procs[p].pc = "del_check"
    /\ IF procs[p].author = None \/ AuthorRow(procs[p].author) = {}
       THEN DeleteReply(p, "Crash")
       ELSE /\ procs' = [procs EXCEPT ![p].pc = "del_author"]
            /\ response' = NoResponse
    /\ UNCHANGED <<authors, books, today, threaded>>

DeleteBookCheckOrphanNeverCascade(p) ==
    /\ procs[p].pc = "del_check"
    /\ IF procs[p].author = None \/ AuthorRow(procs[p].author) = {}
       THEN DeleteReply(p, "Crash")
       ELSE DeleteReply(p, "BookDeleted")
    /\ UNCHANGED <<authors, books, today, threaded>>

DeleteBookCheckOrphan(p) ==
    /\ procs[p].pc = "del_check"
    /\ IF procs[p].author = None \/ AuthorRow(procs[p].author) = {}
       THEN DeleteReply(p, "Crash")
       ELSE IF BooksOf(procs[p].author) # {}
       THEN DeleteReply(p, "BookDeleted")
       ELSE /\ procs' = [procs EXCEPT ![p].pc = "del_author"]
            /\ response' = NoResponse
    /\ UNCHANGED <<authors, books, today, threaded>>

\* What the DELETE of the author checks: the foreign key of the books that
\* reference it, when the connection enforces it.
DeleteAuthorAllowed(id) == ForeignKeysEnforced => BooksOf(id) = {}

\* Lines 209-213: DELETE FROM authors WHERE author_id = ?; COMMIT.
DeleteAuthorCommit(p) ==
    /\ procs[p].pc = "del_author"
    /\ IF DeleteAuthorAllowed(procs[p].author)
       THEN /\ authors' = authors \ AuthorRow(procs[p].author)
            /\ DeleteReply(p, "BookAndAuthorDeleted")
       ELSE /\ DeleteReply(p, "DeleteAuthorFailed")
            /\ UNCHANGED authors
    /\ UNCHANGED <<books, today, threaded>>

DeleteAuthorCommitFailsAfterDelete(p) ==
    /\ procs[p].pc = "del_author"
    /\ authors' = authors \ AuthorRow(procs[p].author)
    /\ DeleteReply(p, "DeleteAuthorFailed")
    /\ UNCHANGED <<books, today, threaded>>

\* Lines 214-217.
DeleteAuthorCommitFails(p) ==
    /\ procs[p].pc = "del_author"
    /\ DeleteReply(p, "DeleteAuthorFailed")
    /\ UNCHANGED <<authors, books, today, threaded>>

\* -------------------------------------------------------------------- home
\* The characters of the model's texts, with their code points.
Code(c) ==
    CASE c = "%" -> 37 [] c = "K" -> 75 [] c = "O" -> 79
      [] c = "_" -> 95 [] c = "k" -> 107 [] c = "o" -> 111

\* SQL lower() of one character.
LowerChar(c) == CASE c = "K" -> "k" [] c = "O" -> "o" [] OTHER -> c
Lower(s) == [i \in 1..Len(s) |-> LowerChar(s[i])]

\* x LIKE pattern: "%" matches any run of characters, "_" any one character,
\* every other character itself.
RECURSIVE Like(_, _)
Like(s, pattern) ==
    IF pattern = <<>> THEN s = <<>>
    ELSE IF Head(pattern) = "%"
    THEN Like(s, Tail(pattern)) \/ (s # <<>> /\ Like(Tail(s), pattern))
    ELSE /\ s # <<>>
         /\ Head(pattern) = "_" \/ Head(pattern) = Head(s)
         /\ Like(Tail(s), Tail(pattern))

\* column.ilike(f"%{search_term}%"): lower(column) LIKE lower('%term%').
ILikeContains(column, search_term) ==
    Like(Lower(column), Lower(<<"%">> \o search_term \o <<"%">>))

\* ORDER BY on a text column (BINARY collation): a <= b by code points.
RECURSIVE TextLeq(_, _)
TextLeq(a, b) ==
    IF a = <<>> THEN TRUE
    ELSE IF b = <<>> THEN FALSE
    ELSE IF Head(a) = Head(b) THEN TextLeq(Tail(a), Tail(b))
    ELSE Code(Head(a)) < Code(Head(b))

\* Lines 130-137.
get_cover_url(isbn, size) ==
    IF isbn = "" THEN <<>>
    ELSE <<"https://covers.openlibrary.org/b/isbn/", isbn, "-", size, ".jpg">>

AuthorNameOf(b) == (CHOOSE a \in AuthorRow(b.author_id) : TRUE).author_name

\* Lines 169-178: one row of the template's data.
Shown(b) ==
    [id |-> b.book_id, title |-> b.book_title, isbn |-> b.isbn,
     author_name |-> AuthorNameOf(b), cover_url |-> get_cover_url(b.isbn, "M")]

\* The books of a query with join(Author): those whose author row exists.
Joined == {b \in books : AuthorRow(b.author_id) # {}}

\* Lines 153-159: the books the search selects.
Search(search_term) ==
    {b \in Joined : \/ ILikeContains(b.book_title, search_term)
                    \/ ILikeContains(AuthorNameOf(b), search_term)}

\* The orders in which a SELECT may return the rows S: by rowid without
\* ORDER BY, else ascending in the key, rows of equal key in any order.
Orderings(S) ==
    {f \in [1..Cardinality(S) -> S] : \A i, j \in DOMAIN f : i # j => f[i] # f[j]}
ByRowid(S) ==
    {f \in Orderings(S) : \A i, j \in DOMAIN f : i < j => f[i].book_id < f[j].book_id}
ByTitle(S) ==
    {f \in Orderings(S) : \A i, j \in DOMAIN f :
        i < j => TextLeq(f[i].book_title, f[j].book_title)}
ByAuthorName(S) ==
    {f \in Orderings(S) : \A i, j \in DOMAIN f :
        i < j => TextLeq(AuthorNameOf(f[i]), AuthorNameOf(f[j]))}

\* Lines 146-166: the rows of the query the parameters select.  The search
\* has no ORDER BY; its rows are taken in rowid order.
HomeQuery(search_term, sort_by) ==
    IF search_term # <<>> THEN ByRowid(Search(search_term))
    ELSE IF sort_by = "title" THEN ByTitle(books)
    ELSE IF sort_by = "author" THEN ByAuthorName(Joined)
    ELSE ByRowid(books)

\* GET /home: one SELECT, then lines 169-180.  book.author is None for a
\* book whose author row does not exist, and line 176 raises AttributeError.
Home(p, search_term, sort_by) ==
    LET req == [q |-> search_term, sort |-> sort_by]
    IN /\ Accepts(p)
       /\ \E result \in HomeQuery(search_term, sort_by) :
             IF \E i \in DOMAIN result : AuthorRow(result[i].author_id) = {}
             THEN response' = [op |-> "home", status |-> "Crash", req |-> req,
                               books |-> <<>>]
             ELSE response' = [op |-> "home", status |-> "ok", req |-> req,
                               books |-> [i \in DOMAIN result |-> Shown(result[i])]]
       /\ UNCHANGED <<authors, books, today, threaded, procs>>

\* ------------------------------------------------------------------- clock
Tick ==
    /\ today < MaxDay
    /\ today' = today + 1
    /\ response' = NoResponse
    /\ UNCHANGED <<authors, books, threaded, procs>>

\* -------------------------------------------------------------------- spec
Init ==
    /\ authors = {}
    /\ books = {}
    /\ today = 1
    /\ threaded \in BOOLEAN
    /\ procs = [p \in Workers |-> Idle]
    /\ response = NoResponse

\* A server that handles one request at a time.
InitSerial == Init /\ ~threaded

\* The empty string, the malformed "2000-13-01", "2000-01-01", "2000-01-02".
DateInputs == {<<>>, <<2000, 13, 1>>, <<2000, 1, 1>>, <<2000, 1, 2>>}

\* The form values the requests of a specification are drawn from.
BookInputs ==
    [names |-> {<<"o">>}, births |-> {<<2000, 1, 1>>}, deaths |-> {<<>>},
     titles |-> {<<>>, <<"k">>}, isbns |-> {"", "i1", "i2"},
     author_names |-> {<<>>, <<"o">>}, book_ids |-> 1..MaxId,
     searches |-> {<<>>}, sorts |-> {"none"}]
AuthorInputs ==
    [names |-> {<<>>, <<"o">>}, births |-> DateInputs, deaths |-> DateInputs,
     titles |-> {<<"k">>}, isbns |-> {"i1"}, author_names |-> {<<"o">>},
     book_ids |-> {1},
     searches |-> {<<>>}, sorts |-> {"none"}]
HomeInputs ==
    [names |-> {<<"o">>, <<"K">>}, births |-> {<<2000, 1, 1>>}, deaths |-> {<<>>},
     titles |-> {<<"k">>, <<"O", "k">>}, isbns |-> {"i1", "i2"},
     author_names |-> {<<"o">>, <<"K">>}, book_ids |-> 1..MaxId,
     searches |-> {<<>>, <<"o">>, <<"K">>, <<"k", "o">>, <<"%">>, <<"_">>},
     sorts |-> {"none", "title", "author"}]

Arrival(I) ==
    \E p \in Workers :
        \/ \E name \in I.names, b \in I.births, d \in I.deaths :
              AddAuthorValidate(p, name, b, d)
        \/ \E title \in I.titles, isbn \in I.isbns, name \in I.author_names :
              AddBookCheck(p, title, isbn, name)
        \/ \E book_id \in I.book_ids : DeleteBookLookup(p, book_id)
        \/ \E q \in I.searches, sort \in I.sorts : Home(p, q, sort)

Step ==
    \E p \in Workers :
        \/ AddAuthorCommit(p)
        \/ AddAuthorCommitFails(p)
        \/ AddBookResolve(p)
        \/ AddBookCommit(p)
        \/ AddBookCommitFails(p)
        \/ DeleteBookCapture(p)
        \/ DeleteBookCommit(p)
        \/ DeleteBookCommitFails(p)
        \/ DeleteBookCheckOrphan(p)
        \/ DeleteAuthorCommit(p)
        \/ DeleteAuthorCommitFails(p)

\* The clock matters to add_author alone, whose dates SpecAuthor varies.
Next == Arrival(BookInputs) \/ Step
NextAuthor == Arrival(AuthorInputs) \/ Step \/ Tick
NextHome == Arrival(HomeInputs) \/ Step

Spec == Init /\ [][Next]_vars
SpecAuthor == Init /\ [][NextAuthor]_vars
SpecHome == InitSerial /\ [][NextHome]_vars

\* ------------------------------------------------------------------ claims
\* Abbreviations of the claims.

IsbnUnique == \A b1, b2 \in books : b1.isbn = b2.isbn => b1 = b2

NamesUnique ==
    \A a1, a2 \in authors : a1.author_name = a2.author_name => a1 = a2

DeletedABook ==
    /\ response.op = "delete_book"
    /\ response.status \in
          {"BookDeleted", "BookAndAuthorDeleted", "DeleteAuthorFailed", "Crash"}

Orphaned(author) == AuthorRow(author) # {} /\ BooksOf(author) = {}

IsDate(s) == StrpDate(s) # ValueError

\* The rules of the validation sequence, in the order of the specification,
\* each stated on its own: whether the request breaks it.
Breaks(rule, req) ==
    CASE rule = 1 -> req.name = <<>> \/ req.birthdate = <<>>
      [] rule = 2 -> \E a \in authors : a.author_name = req.name
      [] rule = 3 -> ~IsDate(req.birthdate)
      [] rule = 4 -> IsDate(req.birthdate) /\ StrpDate(req.birthdate) > today
      [] rule = 5 -> req.date_of_death # <<>> /\ ~IsDate(req.date_of_death)
      [] rule = 6 -> /\ IsDate(req.birthdate) /\ IsDate(req.date_of_death)
                     /\ StrpDate(req.date_of_death) < StrpDate(req.birthdate)
      [] rule = 7 -> IsDate(req.date_of_death) /\ StrpDate(req.date_of_death) > today
ErrorOfRule ==
    <<"MissingField", "DuplicateAuthor", "MalformedDate", "FutureBirthDate",
      "MalformedDate", "DeathBeforeBirth", "FutureDeathDate">>
Broken(req) == {rule \in 1..7 : Breaks(rule, req)}

\* The response of this step refuses an add_author request.
Refused(r) == r.op = "add_author" /\ r.status \notin {"Created", "CommitFailed"}

DiesBeforeBirth(req) == Breaks(6, req)

\* s contains t, ignoring case.
Contains(s, t) ==
    \E i \in 0..(Len(s) - Len(t)) :
        \A k \in 1..Len(t) : LowerChar(s[i + k]) = LowerChar(t[k])

Ascending(texts) ==
    \A i, j \in DOMAIN texts : i < j => TextLeq(texts[i], texts[j])

ShownIds(r) == {r.books[i].id : i \in DOMAIN r.books}
NoRepeat(r) == \A i, j \in DOMAIN r.books : r.books[i].id = r.books[j].id => i = j

\* ------------------------------------------------------------------ claims
\* C1 (as claimed): referential integrity: in every reachable state every
\* persisted Book's author_id is the author_id of a persisted Author.
C1_ReferentialIntegrity ==
    \A b \in books : \E a \in authors : a.author_id = b.author_id

\* C2 (as claimed): no two persisted Books share an isbn, and every add_book
\* answered while its isbn is persisted is answered DuplicateISBN and adds
\* no Book (read for the requests that carry a title and name an existing
\* Author, which no other rule rejects).
C2_AsClaimed ==
    [][/\ IsbnUnique'
       /\ /\ response'.op = "add_book"
          /\ IsbnTaken(response'.req.isbn)
          /\ response'.req.title # <<>>
          /\ AuthorByName(response'.req.author_name) # None
          => response'.status = "DuplicateISBN" /\ books' = books]_vars

\* C2 (amended): no two persisted Books share an isbn, also under
\* interleaving; an add_book with title and isbn whose isbn is persisted when
\* its pre-check runs is answered DuplicateISBN and goes no further (without a
\* title it is answered MissingField); one whose isbn is persisted when it
\* commits is answered CommitFailed; an add_book step taken while its isbn is
\* persisted never changes the Books.
C2_IsbnUnique ==
    [][/\ IsbnUnique'
       /\ \A p \in Workers :
             procs[p].pc = "idle" /\ procs'[p].pc = "book_resolve" =>
                ~IsbnTaken(procs'[p].req.isbn)
       /\ response'.op = "add_book" /\ IsbnTaken(response'.req.isbn) =>
             /\ books' = books
             /\ response'.status \in
                   {"MissingField", "DuplicateISBN", "AuthorNotFound", "CommitFailed"}
             /\ response'.status = "MissingField" <=> response'.req.title = <<>>
             /\ response'.status = "DuplicateISBN" =>
                   \A p \in Workers : procs'[p] = procs[p]
             /\ \A p \in Workers :
                   procs[p].pc = "book_commit" /\ procs'[p].pc = "idle" =>
                      response'.status = "CommitFailed"]_vars

\* Two add_book requests of one isbn interleaved: the second to commit was
\* refused by storage, and the isbn is persisted once.
C2_Witness ==
    /\ response.op = "add_book"
    /\ response.status = "CommitFailed"
    /\ Cardinality({b \in books : b.isbn = response.req.isbn}) = 1

\* C3 (as claimed): a delete_book that ends having removed the last Book of
\* its Author has removed that Author; one that ends with the Author still
\* owning a Book has left Authors and Books alone after the Book deletion.
C3_AsClaimed ==
    [][DeletedABook' /\ response'.author # None =>
          IF \A b \in books' : b.author_id # response'.author
          THEN \A a \in authors' : a.author_id # response'.author
          ELSE authors' = authors /\ books' = books]_vars

\* C3 (amended): the Book deletion removes that Book alone; the re-query that
\* finds the Author without Books leads to the Author deletion, which removes
\* that Author alone when its commit succeeds (when it fails nothing changes
\* and the answer is DeleteAuthorFailed); the re-query that finds another
\* Book ends the request with Authors and Books unchanged.
C3_Cascade ==
    [][\A p \in Workers :
         /\ procs[p].pc = "del_book" /\ procs'[p].pc = "del_check" =>
               /\ books' = books \ BookRow(procs[p].req.book_id)
               /\ authors' = authors
         /\ procs[p].pc = "del_check" /\ procs'[p].pc = "del_author" =>
               /\ BooksOf(procs[p].author) = {}
               /\ authors' = authors /\ books' = books
         /\ procs[p].pc = "del_check" /\ procs'[p].pc = "idle" =>
               /\ authors' = authors /\ books' = books
               /\ \/ /\ response'.status = "BookDeleted"
                     /\ BooksOf(procs[p].author) # {}
                     /\ AuthorRow(procs[p].author) # {}
                  \/ /\ response'.status = "Crash"
                     /\ AuthorRow(procs[p].author) = {}
         /\ procs[p].pc = "del_author" /\ procs'[p].pc = "idle" =>
               /\ books' = books
               /\ \/ /\ response'.status = "BookAndAuthorDeleted"
                     /\ authors' = authors \ AuthorRow(procs[p].author)
                  \/ /\ response'.status = "DeleteAuthorFailed"
                     /\ authors' = authors]_vars

\* The last Book of one Author was deleted and the Author with it, while
\* another Author and its Book remain.
C3_Witness ==
    /\ response.op = "delete_book"
    /\ response.status = "BookAndAuthorDeleted"
    /\ AuthorRow(response.author) = {}
    /\ authors # {} /\ books # {}

\* C4 (as claimed): an add_author request with date_of_death earlier than
\* birth_date is answered DeathBeforeBirth, whatever its name, its birth_date
\* and the storage state.
C4_AsClaimed ==
    response.op = "add_author" /\ DiesBeforeBirth(response.req) =>
        response.status = "DeathBeforeBirth"

\* C4 (amended): an add_author request with date_of_death earlier than
\* birth_date persists nothing and goes no further than validation; it is
\* answered DeathBeforeBirth when its name is not empty, no Author has that
\* name and birth_date is not in the future, and otherwise MissingField,
\* DuplicateAuthor or FutureBirthDate, the earlier rule it breaks.
C4_DeathBeforeBirth ==
    [][/\ \A p \in Workers :
             procs[p].pc = "idle" /\ procs'[p].pc = "author_commit" =>
                ~DiesBeforeBirth(procs'[p].req)
       /\ \A a \in authors' :
             a.date_of_death # None => a.birth_date <= a.date_of_death
       /\ response'.op = "add_author" /\ DiesBeforeBirth(response'.req) =>
             /\ authors' = authors
             /\ \A p \in Workers : procs'[p] = procs[p]
             /\ response'.status =
                   IF response'.req.name = <<>> THEN "MissingField"
                   ELSE IF \E a \in authors : a.author_name = response'.req.name
                        THEN "DuplicateAuthor"
                   ELSE IF StrpDate(response'.req.birthdate) > today
                        THEN "FutureBirthDate"
                   ELSE "DeathBeforeBirth"]_vars

\* A request with date_of_death before birth_date was answered
\* DeathBeforeBirth.
C4_Witness ==
    /\ response.op = "add_author"
    /\ DiesBeforeBirth(response.req)
    /\ response.status = "DeathBeforeBirth"

\* C5: date invariant: every persisted Author has birth_date <= today and,
\* when date_of_death is present, birth_date <= date_of_death <= today.
C5_DateInvariant ==
    \A a \in authors :
        /\ a.birth_date <= today
        /\ a.date_of_death # None =>
              /\ a.birth_date <= a.date_of_death
              /\ a.date_of_death <= today

\* An Author born on the first day whose date of death was in the future
\* then, persisted on the second day.
C5_Witness ==
    \E a \in authors : a.birth_date = 1 /\ a.date_of_death = 2 /\ today = 2

\* C6: a refused add_author request is answered with the error of the first
\* rule it breaks, in the order MissingField, DuplicateAuthor, MalformedDate
\* (birth), FutureBirthDate, MalformedDate (death), DeathBeforeBirth,
\* FutureDeathDate, and persists nothing; a request that breaks a rule is
\* refused.
C6_FailFastOrder ==
    [][/\ \A p \in Workers :
             procs[p].pc = "idle" /\ procs'[p].pc = "author_commit" =>
                Broken(procs'[p].req) = {}
       /\ Refused(response') =>
             /\ \E first \in 1..7 :
                   /\ Breaks(first, response'.req)
                   /\ \A rule \in 1..(first - 1) : ~Breaks(rule, response'.req)
                   /\ response'.status = ErrorOfRule[first]
             /\ authors' = authors
             /\ \A p \in Workers : procs'[p] = procs[p]
       /\ response'.op = "add_author" /\ response'.status = "CommitFailed" =>
             authors' = authors]_vars

\* A request that breaks two rules (the name is taken and birth_date is
\* malformed) was answered with the error of the earlier one.
C6_Witness ==
    /\ Refused(response)
    /\ {2, 3} \subseteq Broken(response.req)
    /\ response.status = "DuplicateAuthor"

\* C7 (as claimed): with a search_term the listing is exactly the Books whose
\* title or whose Author's name contains it, ignoring case; without one it is
\* all Books, in ascending title order for sort title, in ascending
\* Author-name order for sort author, in storage order otherwise.
C7_AsClaimed ==
    response.op = "home" =>
        /\ response.status = "ok"
        /\ NoRepeat(response)
        /\ IF response.req.q # <<>>
           THEN ShownIds(response) =
                   {b.book_id : b \in
                       {x \in books : \/ Contains(x.book_title, response.req.q)
                                      \/ Contains(AuthorNameOf(x), response.req.q)}}
           ELSE /\ ShownIds(response) = {b.book_id : b \in books}
                /\ response.req.sort = "title" =>
                      Ascending([i \in DOMAIN response.books |->
                                    response.books[i].title])
                /\ response.req.sort = "author" =>
                      Ascending([i \in DOMAIN response.books |->
                                    response.books[i].author_name])
                /\ response.req.sort \notin {"title", "author"} =>
                      \A i, j \in DOMAIN response.books :
                          i < j => response.books[i].id < response.books[j].id

\* C8: delete_book changes storage only by its committed transactions: an
\* unknown book_id is answered BookNotFound and goes no further; BookNotFound,
\* a failed Book deletion and a failed Author deletion leave Authors and Books
\* unchanged; after a failed Author deletion (requests one at a time) the Book
\* is deleted and the Author persisted.
C8_OnlyCommitted ==
    [][/\ \A p \in Workers :
             procs[p].pc = "idle" /\ procs'[p].pc = "del_capture" =>
                BookRow(procs'[p].req.book_id) # {}
       /\ response'.op = "delete_book" =>
             /\ response'.status = "BookNotFound" =>
                   /\ BookRow(response'.req.book_id) = {}
                   /\ authors' = authors /\ books' = books
             /\ response'.status = "DeleteBookFailed" =>
                   authors' = authors /\ books' = books
             /\ response'.status = "DeleteAuthorFailed" =>
                   /\ authors' = authors /\ books' = books
                   /\ ~threaded =>
                         /\ \A b \in books' : b.book_id # response'.req.book_id
                         /\ \E a \in authors' : a.author_id = response'.author]_vars

\* The Book deletion committed, the Author deletion failed: the Book is
\* gone, its Author persists.
C8_Witness ==
    /\ response.op = "delete_book"
    /\ response.status = "DeleteAuthorFailed"
    /\ BookRow(response.req.book_id) = {}
    /\ AuthorRow(response.author) # {}

\* C9 (as claimed): once a delete_book that deleted a Book has ended, the
\* Author that owned the Book is not persisted with zero Books.
C9_AsClaimed == DeletedABook /\ response.author # None => ~Orphaned(response.author)

\* C9 (amended): once a delete_book that deleted a Book has ended with an
\* answer other than DeleteAuthorFailed, the Author that owned the Book is
\* not persisted with zero Books.
C9_NoOrphan ==
    /\ DeletedABook
    /\ response.author # None
    /\ response.status # "DeleteAuthorFailed"
    => ~Orphaned(response.author)

\* A cascade has emptied the catalog.
C9_Witness ==
    /\ response.op = "delete_book"
    /\ response.status = "BookAndAuthorDeleted"
    /\ authors = {} /\ books = {}

\* C10: when add_author requests run one at a time (the server is not
\* threaded), no two persisted Authors share an author_name; a request with
\* name and birthdate whose name a persisted Author has is answered
\* DuplicateAuthor.  Two persisted Authors of one name are reached only by
\* interleaved requests.
C10_NamesUniqueWhenSerial ==
    /\ ~threaded => NamesUnique
    /\ /\ Refused(response)
       /\ response.req.name # <<>> /\ response.req.birthdate # <<>>
       /\ \E a \in authors : a.author_name = response.req.name
       => response.status = "DuplicateAuthor"

\* Two interleaved add_author requests of one name have both committed.
C10_Witness == threaded /\ ~NamesUnique

=============================================================================
